---- MODULE Spec2Model ----
(***************************************************************************)
(* The Remote State Poller of alti-cli (package cloud, ImageStateChecker): *)
(* Run starts n Digest workers that take images from the Images channel,   *)
(* poll each image's remote state in checkState and send the finalized     *)
(* image to the Result channel; a closer goroutine closes Result after the *)
(* wait group reaches zero.                                                *)
(*                                                                         *)
(* Two revisions of the file are in the repository: src/unnamed/part_003   *)
(* (rev = 3) and src/unnamed/part_004 (rev = 4).  Digest and Run are the   *)
(* same in both; checkState differs.  The revision is fixed in Init.       *)
(*                                                                         *)
(* The producer that feeds Images, the consumer of Result and whoever      *)
(* closes Done are callers outside the package: they are the environment.  *)
(***************************************************************************)
EXTENDS Integers, Sequences, FiniteSets, Bags, TLC

\* ------------------------------------------------------------------ bounds
MaxItems == 2      \* images the producer may feed
MaxWorkers == 2    \* largest n given to Run; also the host's core count
MaxPolls == 2      \* loop iterations of one image's poll goroutine
ImagesCap == 1     \* capacity of the Images channel

Items == 1..MaxItems
Workers == 1..MaxWorkers

\* runtime.NumCPU(): the host's core count.
NumCPU == MaxWorkers

\* ------------------------------------------------------------ error values
ErrClientTimeout == "client: timeout"
ErrImgInvalid == "image: invalid"
ErrTransport == "net: unreachable"
ErrRegistration == "reg: failed"

Revisions == {3, 4}

\* db.Image as far as the poller reads or writes it.
Image(iid, state, error) == [IID |-> iid, State |-> state, Error |-> error]
NoImage == Image(0, "", "")

\* What gql.ProjectImage can return: (qImg, err).
Response(err, state, errs) == [err |-> err, State |-> state, Error |-> errs]
NoResponse == Response("", "", <<>>)
Responses ==
  { Response("", "Pending", <<>>),
    Response("", "Ready", <<>>),
    Response("", "Invalid", <<>>),
    Response("", "Invalid", <<"corrupt", "truncated">>),
    Response(ErrTransport, "", <<>>) }

\* strings.Join(elems, sep)
RECURSIVE Join(_, _)
Join(elems, sep) ==
  IF Len(elems) = 0 THEN ""
  ELSE IF Len(elems) = 1 THEN elems[1]
  ELSE elems[1] \o sep \o Join(Tail(elems), sep)

VARIABLES
  rev,          \* which revision of the file runs
  nWorkers,     \* n of Run; 0 before Run is called
  wg,           \* the sync.WaitGroup counter
  closes,       \* how many times close(isc.Result) ran
  panicked,     \* "" or the runtime panic that happened
  images,       \* buffer of the Images channel (indices of fed images)
  imagesClosed, \* Images was closed by the producer
  fed,          \* number of images the producer has sent
  input,        \* input[k]: the k-th image sent
  doneClosed,   \* Done was closed
  consuming,    \* the consumer is still receiving from Result
  emitted,      \* images received from Result, in order
  pc,           \* pc[w]: where worker w is
  cur,          \* cur[w]: index of the image worker w holds
  ret,          \* ret[w]: value of checkState(img)
  timer,        \* timer[w]: "off", "running" or "fired"
  gpc,          \* gpc[k]: where the poll goroutine of image k is
  gi,           \* gi[k]: local i of the poll goroutine
  qImg,         \* qImg[k]: local (qImg, err) of the poll goroutine
  queries,      \* queries[k]: calls of gql.ProjectImage for image k
  iters,        \* iters[k]: loop iterations begun for image k
  termSeen,     \* termSeen[k]: a query returned Ready or Invalid
  otherSeen,    \* otherSeen[k]: a query returned something else than Pending
  polledAtCancel, \* images that were inside checkState when Done was closed
                  \* and that their worker still holds
  cmd,          \* the command that runs: "" (none), "import-meta"
  world,        \* what the command finds: server mode, project, file, flags
  idx,          \* service.Check: index of the next check in cs
  invoked,      \* service.Check: the checks called so far, in order
  checkErr,     \* service.Check: the error it returned, "" for nil
  calls,        \* remote, file-system and process calls made, in order
  cpc,          \* where the command's Run function is
  hpc,          \* where the interrupt goroutine is
  registered,   \* signal.Notify(cc, ...) was called
  sigs,         \* interrupts delivered to the process so far
  proc,         \* "running", "returned", "exited" (os.Exit), "killed" or
                \* "panicked"
  files,        \* check image: the files under dir; files[k] is TRUE for an image
  walkErr,      \* check image: the error the traversal ends with, "" for nil
  thread,       \* check image: the flag --thread
  walked,       \* paths the walker has sent
  paths,        \* buffer of the paths channel
  pathsClosed,  \* the paths channel was closed
  errc,         \* buffer of the errc channel
  threads,      \* what digester.Run returned; 0 before the call
  dwg,          \* digest workers that have not returned
  dpc,          \* dpc[w]: where digest worker w is
  dcur,         \* dcur[w]: the digest worker w holds
  resultCloses, \* how many times the result channel was closed
  doneCloses,   \* how many times close(done) ran
  received,     \* the digests the command received, in order
  totalImg      \* the command's count of images

iscVars == << rev, nWorkers, wg, closes, panicked, images, imagesClosed, fed,
              input, doneClosed, consuming, emitted, pc, cur, ret, timer, gpc,
              gi, qImg, queries, iters, termSeen, otherSeen, polledAtCancel >>

cmdVars == << cmd, world, idx, invoked, checkErr, calls, cpc, hpc, registered,
              sigs, proc >>

ciVars == << files, walkErr, thread, walked, paths, pathsClosed, errc, threads,
             dwg, dpc, dcur, resultCloses, doneCloses, received, totalImg >>

vars == << iscVars, cmdVars, ciVars >>

poolVars == << nWorkers, wg, closes, panicked >>
envVars == << imagesClosed, fed, input, doneClosed, consuming >>
pollVars == << gpc, gi, qImg, queries, iters, termSeen, otherSeen >>

\* State of the ImageStateChecker before Run; rev is left to the caller.
IscInit ==
  /\ nWorkers = 0
  /\ wg = 0
  /\ closes = 0
  /\ panicked = ""
  /\ images = << >>
  /\ imagesClosed = FALSE
  /\ fed = 0
  /\ input = [k \in Items |-> NoImage]
  /\ doneClosed = FALSE
  /\ consuming = TRUE
  /\ emitted = << >>
  /\ pc = [w \in Workers |-> "none"]
  /\ cur = [w \in Workers |-> 0]
  /\ ret = [w \in Workers |-> NoImage]
  /\ timer = [w \in Workers |-> "off"]
  /\ gpc = [k \in Items |-> "idle"]
  /\ gi = [k \in Items |-> NoImage]
  /\ qImg = [k \in Items |-> NoResponse]
  /\ queries = [k \in Items |-> 0]
  /\ iters = [k \in Items |-> 0]
  /\ termSeen = [k \in Items |-> FALSE]
  /\ otherSeen = [k \in Items |-> FALSE]
  /\ polledAtCancel = {}

\* No command runs.
NoWorld == [mode |-> "", project |-> "", fileExists |-> FALSE, meta |-> "",
            bucketOk |-> FALSE, serDone |-> FALSE, kind |-> ""]

CmdIdle ==
  /\ cmd = ""
  /\ world = NoWorld
  /\ idx = 0
  /\ invoked = << >>
  /\ checkErr = ""
  /\ calls = << >>
  /\ cpc = "none"
  /\ hpc = "none"
  /\ registered = FALSE
  /\ sigs = 0
  /\ proc = "none"

\* A digest: the path and the error of the digest, "" for nil.
ImageDigest(path, error) == [Path |-> path, Error |-> error]
NoDigest == ImageDigest(0, "")

\* State of check image before the walker and the digester are made.
CiIdle ==
  /\ walked = 0
  /\ paths = << >>
  /\ pathsClosed = FALSE
  /\ errc = << >>
  /\ threads = 0
  /\ dwg = 0
  /\ dpc = [w \in Workers |-> "none"]
  /\ dcur = [w \in Workers |-> NoDigest]
  /\ resultCloses = 0
  /\ doneCloses = 0
  /\ received = << >>
  /\ totalImg = 0

NoCheckImage ==
  /\ files = << >>
  /\ walkErr = ""
  /\ thread = 0
  /\ CiIdle

Init ==
  /\ rev \in Revisions
  /\ IscInit
  /\ CmdIdle
  /\ NoCheckImage

\* A runtime panic ends the process: no goroutine takes another step.
Running == panicked = ""

\* ------------------------------------------------------------- environment
\* The producer sends the next image on Images; e is the error it already
\* carries from the registration step ("" for none).
Feed(e) ==
  /\ Running
  /\ ~imagesClosed
  /\ fed < MaxItems
  /\ Len(images) < ImagesCap
  /\ fed' = fed + 1
  /\ input' = [input EXCEPT ![fed + 1] = Image(fed + 1, "Pending", e)]
  /\ images' = Append(images, fed + 1)
  /\ UNCHANGED << rev, cmdVars, ciVars, poolVars, imagesClosed, doneClosed, consuming, emitted,
                  pc, cur, ret, timer, pollVars, polledAtCancel >>

\* The producer closes Images.
CloseImages ==
  /\ Running
  /\ ~imagesClosed
  /\ imagesClosed' = TRUE
  /\ UNCHANGED << rev, cmdVars, ciVars, poolVars, images, fed, input, doneClosed, consuming,
                  emitted, pc, cur, ret, timer, pollVars, polledAtCancel >>

\* The cancellation signal Done is closed.
CloseDone ==
  /\ Running
  /\ ~doneClosed
  /\ doneClosed' = TRUE
  /\ polledAtCancel' = { cur[w] : w \in { v \in Workers : pc[v] = "wait" } }
  /\ UNCHANGED << rev, cmdVars, ciVars, poolVars, images, imagesClosed, fed, input, consuming,
                  emitted, pc, cur, ret, timer, pollVars >>

\* The consumer stops receiving from Result.
ConsumerStop ==
  /\ Running
  /\ consuming
  /\ consuming' = FALSE
  /\ UNCHANGED << rev, cmdVars, ciVars, poolVars, images, imagesClosed, fed, input, doneClosed,
                  emitted, pc, cur, ret, timer, pollVars, polledAtCancel >>

\* ---------------------------------------------------------------------- Run
\* if n <= 0 { n = runtime.NumCPU() }
DefaultN(n) == IF n <= 0 THEN NumCPU ELSE n

\* Variant: the closer does not wait for the last worker.
WaitReturns_early == wg <= 1

\* wg.Wait() returns.
WaitReturns == wg = 0

\* Run(n): wg.Add(n), start n Digest goroutines and the closer goroutine.
Run(n) ==
  /\ Running
  /\ nWorkers = 0
  /\ nWorkers' = DefaultN(n)
  /\ wg' = DefaultN(n)
  /\ pc' = [w \in Workers |-> IF w <= DefaultN(n) THEN "range" ELSE "none"]
  /\ UNCHANGED << rev, cmdVars, ciVars, closes, panicked, images, envVars, emitted, cur, ret,
                  timer, pollVars, polledAtCancel >>

\* The closer goroutine: wg.Wait(); close(isc.Result).
CloseResult ==
  /\ Running
  /\ nWorkers > 0
  /\ closes = 0
  /\ WaitReturns
  /\ closes' = closes + 1
  /\ UNCHANGED << rev, cmdVars, ciVars, nWorkers, wg, panicked, images, envVars, emitted, pc,
                  cur, ret, timer, pollVars, polledAtCancel >>

\* --------------------------------------------------------------- checkState
\* part_003: if img.Error != "" { return img }.  part_004 has no such test.
HasPriorError(img) == rev = 3 /\ img.Error # ""

\* Variant: the timeout case also assigns a synthetic state.
TimedOut_state(img) == [img EXCEPT !.Error = ErrClientTimeout, !.State = "TimedOut"]

\* Variant: the timeout case starts from the image of the poll loop.
TimedOut_observed(img) == [gi[img.IID] EXCEPT !.Error = ErrClientTimeout]

\* ret := img; ret.Error = errors.ErrClientTimeout.Error()
TimedOut(img) == [img EXCEPT !.Error = ErrClientTimeout]

\* Variant of loopBody3: Invalid does not end the loop.
loopBody3_invalidContinues(i, r) ==
  IF r.err # "" THEN [i |-> [i EXCEPT !.Error = r.err], next |-> "send"]
  ELSE IF r.State = "Ready" THEN [i |-> [i EXCEPT !.State = r.State], next |-> "send"]
  ELSE [i |-> [i EXCEPT !.State = r.State], next |-> "sleep"]

\* Variant of loopBody3: Invalid ends the loop without an error.
loopBody3_invalidNoError(i, r) ==
  IF r.err # "" THEN [i |-> [i EXCEPT !.Error = r.err], next |-> "send"]
  ELSE IF r.State \in {"Ready", "Invalid"}
    THEN [i |-> [i EXCEPT !.State = r.State], next |-> "send"]
  ELSE [i |-> [i EXCEPT !.State = r.State], next |-> "sleep"]

\* Variant of loopBody3: a failed query is tried again after the sleep.
loopBody3_retry(i, r) ==
  IF r.err # "" THEN [i |-> [i EXCEPT !.Error = r.err], next |-> "sleep"]
  ELSE IF r.State = "Ready" THEN [i |-> [i EXCEPT !.State = r.State], next |-> "send"]
  ELSE IF r.State = "Invalid" THEN
    [i |-> [i EXCEPT !.State = r.State,
                     !.Error = IF Join(r.Error, ";") = "" THEN ErrImgInvalid
                               ELSE Join(r.Error, ";")],
     next |-> "send"]
  ELSE [i |-> [i EXCEPT !.State = r.State], next |-> "sleep"]

\* Variant of loopBody3: the server's error list is joined with ",".
loopBody3_comma(i, r) ==
  IF r.err # "" THEN [i |-> [i EXCEPT !.Error = r.err], next |-> "send"]
  ELSE IF r.State = "Ready" THEN [i |-> [i EXCEPT !.State = r.State], next |-> "send"]
  ELSE IF r.State = "Invalid" THEN
    [i |-> [i EXCEPT !.State = r.State,
                     !.Error = IF Join(r.Error, ",") = "" THEN ErrImgInvalid
                               ELSE Join(r.Error, ",")],
     next |-> "send"]
  ELSE [i |-> [i EXCEPT !.State = r.State], next |-> "sleep"]

\* One pass of the loop body of part_003 on the response r: the new local i
\* and where the goroutine goes next.
loopBody3(i, r) ==
  IF r.err # "" THEN [i |-> [i EXCEPT !.Error = r.err], next |-> "send"]
  ELSE IF r.State = "Ready" THEN [i |-> [i EXCEPT !.State = r.State], next |-> "send"]
  ELSE IF r.State = "Invalid" THEN
    [i |-> [i EXCEPT !.State = r.State,
                     !.Error = IF Join(r.Error, ";") = "" THEN ErrImgInvalid
                               ELSE Join(r.Error, ";")],
     next |-> "send"]
  ELSE [i |-> [i EXCEPT !.State = r.State], next |-> "sleep"]

\* One pass of the loop body of part_004 on the stored response r.
loopBody4(i, r) ==
  IF r.err # "" THEN [i |-> [i EXCEPT !.Error = r.err], next |-> "send"]
  ELSE IF r.State = "Ready" \/ r.State = "Invalid"
    THEN [i |-> [i EXCEPT !.State = r.State], next |-> "send"]
  ELSE [i |-> [i EXCEPT !.State = r.State], next |-> "sleep"]

loopBody(i, r) == IF rev = 3 THEN loopBody3(i, r) ELSE loopBody4(i, r)

\* The poll goroutine calls gql.ProjectImage and runs the loop body on the
\* answer.  part_003 does so at the top of every iteration, part_004 once
\* before the loop.
PollQuery(k) ==
  /\ Running
  /\ gpc[k] = "query"
  /\ iters[k] < MaxPolls
  /\ \E r \in Responses :
       /\ qImg' = [qImg EXCEPT ![k] = r]
       /\ gi' = [gi EXCEPT ![k] = loopBody(gi[k], r).i]
       /\ gpc' = [gpc EXCEPT ![k] = loopBody(gi[k], r).next]
       /\ termSeen' = [termSeen EXCEPT ![k] = @ \/ (r.err = "" /\ r.State \in {"Ready", "Invalid"})]
       /\ otherSeen' = [otherSeen EXCEPT ![k] = @ \/ r.err # "" \/ r.State # "Pending"]
  /\ queries' = [queries EXCEPT ![k] = @ + 1]
  /\ iters' = [iters EXCEPT ![k] = @ + 1]
  /\ UNCHANGED << rev, cmdVars, ciVars, poolVars, images, envVars, emitted, pc, cur, ret, timer,
                  polledAtCancel >>

\* time.Sleep(time.Second) returns.  part_003 goes back to the query;
\* part_004 runs the loop body again on the response it already has.
PollWake(k) ==
  /\ Running
  /\ gpc[k] = "sleep"
  /\ IF rev = 3
       THEN /\ gpc' = [gpc EXCEPT ![k] = "query"]
            /\ UNCHANGED << gi, iters >>
       ELSE /\ iters[k] < MaxPolls
            /\ gi' = [gi EXCEPT ![k] = loopBody4(gi[k], qImg[k]).i]
            /\ gpc' = [gpc EXCEPT ![k] = loopBody4(gi[k], qImg[k]).next]
            /\ iters' = [iters EXCEPT ![k] = @ + 1]
  /\ UNCHANGED << rev, cmdVars, ciVars, poolVars, images, envVars, emitted, pc, cur, ret, timer,
                  qImg, queries, termSeen, otherSeen, polledAtCancel >>

\* isc.Timeout elapses on the timer of worker w's checkState.
TimerFire(w) ==
  /\ Running
  /\ timer[w] = "running"
  /\ timer' = [timer EXCEPT ![w] = "fired"]
  /\ UNCHANGED << rev, cmdVars, ciVars, poolVars, images, envVars, emitted, pc, cur, ret,
                  pollVars, polledAtCancel >>

\* Variant: the select has no timeout case.
TimeoutReady_never(w) == FALSE

\* Variant: the timeout case is ready as soon as the timer is armed.
TimeoutReady_armed(w) == timer[w] # "off"

\* select case <-time.After(isc.Timeout) / <-timer.C
TimeoutReady(w) == timer[w] = "fired"

checkStateTimeout(w) ==
  /\ Running
  /\ pc[w] = "wait"
  /\ TimeoutReady(w)
  /\ ret' = [ret EXCEPT ![w] = TimedOut(input[cur[w]])]
  /\ pc' = [pc EXCEPT ![w] = "select"]
  /\ timer' = [timer EXCEPT ![w] = "off"]
  /\ UNCHANGED << rev, cmdVars, ciVars, poolVars, images, envVars, emitted, cur, pollVars,
                  polledAtCancel >>

\* select case ret = <-imgCh: the goroutine's send completes, it returns and
\* its deferred close(imgCh) runs.
checkStateRecv(w) ==
  /\ Running
  /\ pc[w] = "wait"
  /\ gpc[cur[w]] = "send"
  /\ ret' = [ret EXCEPT ![w] = gi[cur[w]]]
  /\ gpc' = [gpc EXCEPT ![cur[w]] = "closed"]
  /\ pc' = [pc EXCEPT ![w] = "select"]
  /\ timer' = [timer EXCEPT ![w] = "off"]
  /\ UNCHANGED << rev, cmdVars, ciVars, poolVars, images, envVars, emitted, cur, gi, qImg,
                  queries, iters, termSeen, otherSeen, polledAtCancel >>

\* ------------------------------------------------------------------- Digest
\* Variant: the select gives up whether or not Done is closed.
DoneObserved_default == TRUE

\* select case <-isc.Done is ready.
DoneObserved == doneClosed

\* range isc.Images ends once the channel is closed and drained.
RangeEnds == images = << >> /\ imagesClosed

\* Variant: the received image stays in the channel.
Dequeue_keep(q) == q

\* A receive takes the image at the head of the channel out of it.
Dequeue(q) == Tail(q)

\* for img := range isc.Images: the worker receives the next image and
\* enters checkState(img), whose value the select below needs first.
DigestNext(w) ==
  /\ Running
  /\ pc[w] = "range"
  /\ images # << >>
  /\ LET k == Head(images)
         img == input[k]
     IN  /\ images' = Dequeue(images)
         /\ cur' = [cur EXCEPT ![w] = k]
         /\ ret' = [ret EXCEPT ![w] = img]
         /\ IF HasPriorError(img)
              THEN /\ pc' = [pc EXCEPT ![w] = "select"]
                   /\ UNCHANGED << timer, gpc, gi >>
              ELSE /\ pc' = [pc EXCEPT ![w] = "wait"]
                   /\ timer' = [timer EXCEPT ![w] = "running"]
                   /\ gpc' = [gpc EXCEPT ![k] = "query"]
                   /\ gi' = [gi EXCEPT ![k] = img]
  /\ UNCHANGED << rev, cmdVars, ciVars, poolVars, envVars, emitted, qImg, queries, iters,
                  termSeen, otherSeen, polledAtCancel >>

\* The range loop ends: Images is closed and drained.  Digest returns and
\* the goroutine calls wg.Done().
DigestEnd(w) ==
  /\ Running
  /\ pc[w] = "range"
  /\ RangeEnds
  /\ pc' = [pc EXCEPT ![w] = "returned"]
  /\ wg' = wg - 1
  /\ UNCHANGED << rev, cmdVars, ciVars, nWorkers, closes, panicked, images, envVars, emitted,
                  cur, ret, timer, pollVars, polledAtCancel >>

\* select case isc.Result <- ret: the consumer receives the image.  A send
\* on a closed channel panics.
DigestSend(w) ==
  /\ Running
  /\ pc[w] = "select"
  /\ consuming
  /\ IF closes > 0
       THEN /\ panicked' = "send on closed channel"
            /\ UNCHANGED << emitted, pc, cur, ret, polledAtCancel >>
       ELSE /\ emitted' = Append(emitted, ret[w])
            /\ pc' = [pc EXCEPT ![w] = "range"]
            /\ cur' = [cur EXCEPT ![w] = 0]
            /\ ret' = [ret EXCEPT ![w] = NoImage]
            /\ polledAtCancel' = polledAtCancel \ {cur[w]}
            /\ UNCHANGED panicked
  /\ UNCHANGED << rev, cmdVars, ciVars, nWorkers, wg, closes, images, envVars, timer, pollVars >>

\* select case <-isc.Done: return, and the goroutine calls wg.Done().  The
\* value of checkState(img) is dropped.
DigestDone(w) ==
  /\ Running
  /\ pc[w] = "select"
  /\ DoneObserved
  /\ pc' = [pc EXCEPT ![w] = "returned"]
  /\ wg' = wg - 1
  /\ cur' = [cur EXCEPT ![w] = 0]
  /\ ret' = [ret EXCEPT ![w] = NoImage]
  /\ polledAtCancel' = polledAtCancel \ {cur[w]}
  /\ UNCHANGED << rev, cmdVars, ciVars, nWorkers, closes, panicked, images, envVars, emitted,
                  timer, pollVars >>

\* --------------------------------------------------------------------- Next
Worker(w) ==
  \/ DigestNext(w)
  \/ DigestEnd(w)
  \/ TimerFire(w)
  \/ checkStateTimeout(w)
  \/ checkStateRecv(w)
  \/ DigestSend(w)
  \/ DigestDone(w)

Poll(k) == PollQuery(k) \/ PollWake(k)

Environment ==
  \/ \E e \in {"", ErrRegistration} : Feed(e)
  \/ CloseImages
  \/ CloseDone
  \/ ConsumerStop

Next ==
  \/ \E n \in 0..MaxWorkers : Run(n)
  \/ \E w \in Workers : Worker(w)
  \/ \E k \in Items : Poll(k)
  \/ CloseResult
  \/ Environment

Spec == Init /\ [][Next]_vars

\* The goroutines of the package are scheduled fairly; the callers (producer,
\* consumer, canceller) owe nothing.
Fairness ==
  /\ \A w \in Workers : WF_vars(Worker(w))
  /\ \A k \in Items : WF_vars(Poll(k))
  /\ WF_vars(CloseResult)

FairSpec == Init /\ [][Next]_vars /\ Fairness

\* ------------------------------------------------------------------ helpers
Terminal == {"Ready", "Invalid"}
Started == { w \in Workers : w <= nWorkers }
AllReturned == nWorkers > 0 /\ \A w \in Started : pc[w] = "returned"

\* The bag of the IIDs of a sequence of images.
IdBag(s) ==
  [ id \in { s[j].IID : j \in 1..Len(s) } |->
      Cardinality({ j \in 1..Len(s) : s[j].IID = id }) ]
InputSeq == [ k \in 1..fed |-> input[k] ]

\* checkState polls the image worker w holds (it did not return it at once).
Polled(w) == rev = 4 \/ input[cur[w]].Error = ""

\* -------------------------------------------------------------------- C1
\* C1: with Done never closed, when the Result stream is closed the consumer
\* has received exactly as many images as were fed, and the bag of their ids
\* is the bag of the ids fed: nothing dropped, nothing duplicated.
C1_NoDropNoDuplicate ==
  (closes > 0 /\ ~doneClosed) =>
     /\ imagesClosed
     /\ Len(emitted) = fed
     /\ IdBag(emitted) = IdBag(InputSeq)

C1_Witness ==
  /\ closes > 0 /\ ~doneClosed
  /\ nWorkers = MaxWorkers
  /\ fed = MaxItems
  /\ Len(emitted) = MaxItems

\* -------------------------------------------------------------------- C2
\* C2: Result is closed at most once, only when every worker started by Run
\* has returned, and no runtime panic (send on the closed stream, double
\* close) ever happens, cancelled or not.
C2_ClosedOnceAfterAllReturned ==
  /\ closes <= 1
  /\ panicked = ""
  /\ (closes = 1 => AllReturned)

C2_Witness ==
  /\ closes = 1
  /\ doneClosed
  /\ nWorkers = MaxWorkers
  /\ Len(emitted) < fed

\* -------------------------------------------------------------------- C3
\* An error that tells a cancelled image from every other outcome of
\* checkState.
IsCancelError(e) ==
  e \notin {"", ErrClientTimeout, ErrImgInvalid, ErrTransport, ErrRegistration,
               "corrupt;truncated"}

\* C3: an image that was inside checkState when Done was closed leaves
\* checkState with a cancellation error, not with the timeout error or a
\* polled outcome.
C3_CancelAbandonsPoll ==
  \A w \in Workers :
    (pc[w] = "select" /\ cur[w] \in polledAtCancel) => IsCancelError(ret[w].Error)

\* -------------------------------------------------------------------- C4
\* C4: once Done is closed no call of gql.ProjectImage is made.
C4_NoQueryAfterCancel ==
  [][doneClosed => queries' = queries]_vars

\* -------------------------------------------------------------------- C5
\* C5: a worker idle in the range over Images is not blocked once Done is
\* closed, even with Images empty and open: it can return.
C5_IdleWorkerObservesCancel ==
  \A w \in Workers :
    (doneClosed /\ pc[w] = "range" /\ images = << >> /\ ~imagesClosed)
      => ENABLED Worker(w)

\* -------------------------------------------------------------------- C6
\* C6: once Done is closed and the consumer has stopped receiving, every
\* worker returns and Result is closed, and nothing panics.
C6_CancelTerminatesPool ==
  /\ [](panicked = "")
  /\ (nWorkers > 0 /\ doneClosed /\ ~consuming) ~> (AllReturned /\ closes = 1)

\* -------------------------------------------------------------------- C7
\* C7: an image without prior error whose every query so far answered
\* Pending leaves checkState only through the timeout case, with the client
\* timeout error and only after its timer fired; and a worker waiting in
\* checkState always leaves it.
C7_TimeoutFinalizes ==
  /\ [][ \A w \in Workers :
           (pc[w] = "wait" /\ pc'[w] = "select") =>
              /\ (ret'[w].Error = ErrClientTimeout => timer[w] = "fired")
              /\ (~otherSeen'[cur[w]] =>
                    /\ ret'[w].Error = ErrClientTimeout
                    /\ timer[w] = "fired") ]_vars
  /\ \A w \in Workers : (pc[w] = "wait") ~> (pc[w] = "select")

C7_Witness ==
  \E w \in Workers :
    /\ pc[w] = "select"
    /\ input[cur[w]].Error = ""
    /\ ~otherSeen[cur[w]]
    /\ queries[cur[w]] = MaxPolls
    /\ ret[w].Error = ErrClientTimeout

\* -------------------------------------------------------------------- C8
\* C8: once a query for an image has answered Ready or Invalid, no further
\* query is made for that image.
C8_NoQueryAfterTerminal ==
  [][ \A k \in Items : termSeen[k] => queries'[k] = queries[k] ]_vars

C8_Witness ==
  \E k \in Items : termSeen[k] /\ queries[k] = MaxPolls /\ gpc[k] = "closed"

\* -------------------------------------------------------------------- C9
\* C9: every loop iteration of an image's poll goroutine makes one fresh
\* query, a query is made only at the top of the loop (after the previous
\* one returned and the sleep passed), and the loop is left only after a
\* terminal state or a query failure.
C9_FreshQueryEachIteration ==
  [][ \A k \in Items :
        /\ (iters'[k] # iters[k] => queries'[k] = queries[k] + 1)
        /\ (queries'[k] # queries[k] => gpc[k] = "query")
        /\ ((gpc[k] # "send" /\ gpc'[k] = "send") =>
              (termSeen'[k] \/ gi'[k].Error # "")) ]_vars

\* ------------------------------------------------------------------- C10
\* C10 as stated: an image that leaves checkState after polling carries a
\* terminal state (Ready, Invalid or TimedOut), and TimedOut when it was
\* finalized by the timeout.
C10_TerminalStateOnEmit ==
  \A w \in Workers :
    (pc[w] = "select" /\ Polled(w)) =>
       /\ ret[w].State \in Terminal \cup {"TimedOut"}
       /\ (ret[w].Error = ErrClientTimeout => ret[w].State = "TimedOut")

\* C10 amended: the state of a finalized image is the state it came in with
\* or the state the last query reported; it is Ready or Invalid only if a
\* query reported that state, and a poll goroutine that has seen Ready or
\* Invalid keeps it.  An image finalized by the timeout keeps the state it
\* came in with and is marked by the client timeout error alone.
C10_StateForwardOnly ==
  [][ /\ \A w \in Workers :
           pc'[w] = "select" =>
              /\ ret'[w].State \in {input'[cur'[w]].State, qImg'[cur'[w]].State}
              /\ (ret'[w].State \in Terminal =>
                     termSeen'[cur'[w]] /\ ret'[w].Error # ErrClientTimeout)
              /\ (ret'[w].Error = ErrClientTimeout =>
                     ret'[w].State = input'[cur'[w]].State)
      /\ \A k \in Items :
           gi[k].State \in Terminal => gi'[k].State = gi[k].State ]_vars

C10_Witness ==
  \E w \in Workers :
    /\ pc[w] = "select"
    /\ Polled(w)
    /\ ret[w].Error = ErrClientTimeout
    /\ ret[w].State = "Pending"
    /\ termSeen[cur[w]]

\* ------------------------------------------------------------------- C11
\* The emitted images with IID k.
EmittedOf(k) == { j \in 1..Len(emitted) : emitted[j].IID = k }

\* C11: when a worker finalizes an image with the timeout error or a query
\* failure, nothing but that worker and that image changes: Done, Result,
\* the wait group, the queue, the other workers and the other poll
\* goroutines stay as they are.  A failed query is not repeated.  And when
\* Result closes without cancellation every image fed has been emitted, each
\* with the outcome of its own queries.
C11_FailureIsPerItem ==
  [][ /\ \A w \in Workers :
           (pc[w] = "wait" /\ pc'[w] = "select"
              /\ ret'[w].Error \in {ErrClientTimeout, ErrTransport}) =>
             /\ UNCHANGED << doneClosed, closes, wg, nWorkers, images,
                             imagesClosed, emitted, panicked >>
             /\ \A v \in Workers \ {w} :
                   pc'[v] = pc[v] /\ cur'[v] = cur[v] /\ ret'[v] = ret[v]
             /\ \A k \in Items \ {cur[w]} : gpc'[k] = gpc[k] /\ gi'[k] = gi[k]
      /\ \A k \in Items : qImg[k].err # "" => queries'[k] = queries[k]
      /\ (closes' > 0 /\ ~doneClosed') =>
            \A k \in 1..fed' :
               /\ Cardinality(EmittedOf(k)') = 1
               /\ \A j \in EmittedOf(k)' :
                    /\ emitted'[j].Error = ErrTransport => qImg'[k].err = ErrTransport
                    /\ emitted'[j].State \in Terminal => qImg'[k].State = emitted'[j].State
    ]_vars

C11_Witness ==
  /\ closes > 0 /\ ~doneClosed
  /\ Len(emitted) = 2
  /\ \E j \in 1..2 : emitted[j].Error \in {ErrClientTimeout, ErrTransport}
  /\ \E j \in 1..2 : emitted[j].State = "Ready" /\ emitted[j].Error = ""

\* ------------------------------------------------------------------- C12
\* C12: an image that comes in with an error is never queried, and what is
\* emitted for it is the image as it came in.
C12_PriorErrorUntouched ==
  \A k \in Items :
    input[k].Error # "" =>
       /\ queries[k] = 0
       /\ \A j \in EmittedOf(k) : emitted[j] = input[k]

\* ------------------------------------------------------------------- C13
\* The image the loop of part_003 hands over for a terminal response r.
TerminalImage(img, r) ==
  IF r.State = "Invalid"
    THEN [img EXCEPT !.State = "Invalid",
                     !.Error = IF Join(r.Error, ";") = "" THEN ErrImgInvalid
                               ELSE Join(r.Error, ";")]
    ELSE [img EXCEPT !.State = "Ready", !.Error = ""]

\* C13 (part_003): when the poll loop hands an image over after a response
\* Invalid, checkState returns it with state Invalid and the server's error
\* list joined with ";", or the default invalid-image error for an empty
\* list; after a response Ready, with state Ready and no error.
C13_TerminalOutcome ==
  [][ \A w \in Workers :
        (rev = 3 /\ pc[w] = "wait" /\ pc'[w] = "select"
           /\ gpc'[cur[w]] = "closed" /\ termSeen[cur[w]]) =>
          ret'[w] = TerminalImage(input[cur[w]], qImg[cur[w]]) ]_vars

C13_Witness ==
  \E w \in Workers :
    /\ rev = 3 /\ pc[w] = "select"
    /\ ret[w].State = "Invalid"
    /\ ret[w].Error = "corrupt;truncated"

\* ------------------------------------------------------------------- C14
\* C14: under every interleaving, cancelled or not, an image fed is in
\* exactly one place: still in the queue, held by exactly one worker, or
\* gone from both; at most one result is emitted for it, only after a worker
\* took it, and nothing is emitted that was not fed.
Holders(k) == { w \in Workers : pc[w] \in {"wait", "select"} /\ cur[w] = k }
Queued(k) == { j \in 1..Len(images) : images[j] = k }

C14_OneOwnerOneResult ==
  /\ \A j \in 1..Len(emitted) : emitted[j].IID \in 1..fed
  /\ \A k \in 1..fed :
       /\ Cardinality(Queued(k)) + Cardinality(Holders(k)) + Cardinality(EmittedOf(k)) <= 1
       /\ (gpc[k] \in {"query", "sleep"} /\ Holders(k) # {}) => EmittedOf(k) = {}

C14_Witness ==
  /\ doneClosed
  /\ nWorkers = MaxWorkers
  /\ \E k \in 1..fed : Cardinality(EmittedOf(k)) = 1
  /\ \E k \in 1..fed : EmittedOf(k) = {} /\ Queued(k) = {} /\ Holders(k) = {}

\* =================================================== the import meta command
\* cmd/import-meta.go and the checks of service/checker.go it runs.
MaxSignals == 2

NormalMode == "Normal"
ReadOnlyMode == "ReadOnly"
Modes == {NormalMode, ReadOnlyMode, "Offline"}

ErrReadOnly == "server: read only"
ErrOffline == "server: offline"
ErrProjNotFound == "project: not found"
ErrProjLookup == "gql: no such project"
ErrNotExist == "stat: no such file or directory"
ErrMetaFilenameInvalid == "file: invalid meta filename"

validNames == {"camera.txt", "pose.txt", "group.txt"}
MetaNames == {"camera.txt", "group.txt", "notes.txt"}

\* What gql.SearchProjectID finds: no project, an imported one, a plain one.
Projects == {"missing", "imported", "plain"}

Worlds == [mode : Modes, project : Projects, fileExists : BOOLEAN,
           meta : MetaNames, bucketOk : BOOLEAN, serDone : BOOLEAN,
           kind : {"meta"}]

\* The checks import-meta.go passes to service.Check, in argument order.
MetaChecks == << "CheckAPIServer", "CheckPID", "CheckFile", "CheckFilenames" >>

\* The error each check returns in world v ("" for nil).
CheckAPIServer(v) ==
  IF v.mode # NormalMode
    THEN IF v.mode = ReadOnlyMode THEN ErrReadOnly ELSE ErrOffline
    ELSE ""

\* Variant: the tests of "meta" and "model" are exchanged.
CheckPID_swapped(kind, v) ==
  IF v.project = "missing" THEN ErrProjLookup
  ELSE IF kind = "model" /\ v.project = "imported" THEN ErrProjNotFound
  ELSE IF kind = "meta" /\ v.project # "imported" THEN ErrProjNotFound
  ELSE ""

CheckPID(kind, v) ==
  IF v.project = "missing" THEN ErrProjLookup
  ELSE IF kind = "meta" /\ v.project = "imported" THEN ErrProjNotFound
  ELSE IF kind = "model" /\ v.project # "imported" THEN ErrProjNotFound
  ELSE ""

CheckFile(v) == IF ~v.fileExists THEN ErrNotExist ELSE ""

\* Variant: every file name is accepted.
CheckFilenames_any(v, allowed) == ""

CheckFilenames(v, allowed) ==
  IF v.meta \notin allowed THEN ErrMetaFilenameInvalid ELSE ""

CheckFn(c, v) ==
  CASE c = "CheckAPIServer" -> CheckAPIServer(v)
    [] c = "CheckPID"       -> CheckPID("meta", v)
    [] c = "CheckFile"      -> CheckFile(v)
    [] c = "CheckFilenames" -> CheckFilenames(v, validNames)

\* The remote and file-system calls a check makes.
CheckCalls(c) ==
  CASE c = "CheckAPIServer" -> << "gql.ActiveSystemMode" >>
    [] c = "CheckPID"       -> << "gql.SearchProjectID" >>
    [] c = "CheckFile"      -> << "os.Stat" >>
    [] c = "CheckFilenames" -> << >>

ImportMetaInit ==
  /\ rev = 3
  /\ IscInit
  /\ NoCheckImage
  /\ cmd = "import-meta"
  /\ world \in Worlds
  /\ idx = 1
  /\ invoked = << >>
  /\ checkErr = ""
  /\ calls = << >>
  /\ cpc = "check"
  /\ hpc = "none"
  /\ registered = FALSE
  /\ sigs = 0
  /\ proc = "running"

\* A step of the process: it has not ended.
Alive == cmd = "import-meta" /\ proc = "running"

\* Variant: the loop of Check goes on after a check failed.
CheckReturns_never(err) == FALSE

\* service.Check leaves its loop with the error of the check just run.
CheckReturns(err) == err # ""

\* One iteration of the loop of service.Check: the next check is called; its
\* error makes Check return it, and the command logs it and returns.  After
\* the last check Check returns nil and the command goes on.
CheckCall ==
  /\ Alive /\ cpc = "check"
  /\ LET c == MetaChecks[idx]
         err == CheckFn(c, world)
     IN  /\ invoked' = Append(invoked, c)
         /\ calls' = calls \o CheckCalls(c)
         /\ IF CheckReturns(err)
              THEN /\ checkErr' = err
                   /\ cpc' = "returned"
                   /\ proc' = "returned"
                   /\ idx' = idx
              ELSE /\ idx' = idx + 1
                   /\ cpc' = IF idx = Len(MetaChecks) THEN "search" ELSE cpc
                   /\ UNCHANGED << checkErr, proc >>
  /\ UNCHANGED << iscVars, ciVars, cmd, world, hpc, registered, sigs >>

\* Line 50: the project is looked up again; the error is dropped.
SearchProject ==
  /\ Alive /\ cpc = "search"
  /\ calls' = Append(calls, "gql.SearchProjectID")
  /\ cpc' = "bucket"
  /\ UNCHANGED << iscVars, ciVars, cmd, world, idx, invoked, checkErr, hpc, registered,
                  sigs, proc >>

\* Variant: the error of service.SuggestBucket is ignored.
AfterBucket_ignore(ok) == "notify"

\* Lines 58-61: an error of service.SuggestBucket makes the command return.
AfterBucket(ok) == IF ok THEN "notify" ELSE "returned"

\* Lines 56-61: service.SuggestBucket answers with a bucket or with an error,
\* which ends the command.
SuggestBucket ==
  /\ Alive /\ cpc = "bucket"
  /\ calls' = Append(calls, "service.SuggestBucket")
  /\ cpc' = AfterBucket(world.bucketOk)
  /\ proc' = IF cpc' = "returned" THEN "returned" ELSE proc
  /\ UNCHANGED << iscVars, ciVars, cmd, world, idx, invoked, checkErr, hpc, registered,
                  sigs >>

\* Lines 68-80: the uploader value is built and signal.Notify registers cc.
Notify ==
  /\ Alive /\ cpc = "notify"
  /\ registered' = TRUE
  /\ cpc' = "go"
  /\ UNCHANGED << iscVars, ciVars, cmd, world, idx, invoked, checkErr, calls, hpc,
                  sigs, proc >>

\* Line 81: the go statement starts the interrupt goroutine.
GoHandler ==
  /\ Alive /\ cpc = "go"
  /\ hpc' = "start"
  /\ cpc' = "run"
  /\ UNCHANGED << iscVars, ciVars, cmd, world, idx, invoked, checkErr, calls,
                  registered, sigs, proc >>

\* Line 92: mru.Run() is called ...
RunCall ==
  /\ Alive /\ cpc = "run"
  /\ calls' = Append(calls, "mru.Run")
  /\ cpc' = "running"
  /\ UNCHANGED << iscVars, ciVars, cmd, world, idx, invoked, checkErr, hpc, registered,
                  sigs, proc >>

\* ... and returns a state or an error; either way the command logs and
\* returns (lines 93-98).
RunReturn ==
  /\ Alive /\ cpc = "running"
  /\ cpc' = "returned"
  /\ proc' = "returned"
  /\ UNCHANGED << iscVars, ciVars, cmd, world, idx, invoked, checkErr, calls, hpc,
                  registered, sigs >>

\* Line 82: the goroutine reaches its receive from cc.
HandlerWait ==
  /\ Alive /\ hpc = "start"
  /\ hpc' = "recv"
  /\ UNCHANGED << iscVars, ciVars, cmd, world, idx, invoked, checkErr, calls, cpc,
                  registered, sigs, proc >>

\* Variant: every interrupt runs the goroutine's body from its start.
Receiving_always(h) == TRUE

\* The goroutine receives from cc once, at line 82, and nowhere else.
Receiving(h) == h = "recv"

\* An interrupt (os.Interrupt or SIGTERM) reaches the process.  Before
\* signal.Notify the signal's default action ends the process.  After it the
\* signal is sent on the unbuffered cc without blocking: the goroutine gets
\* it if it waits in its receive, otherwise the signal is dropped.
Interrupt ==
  /\ Alive /\ sigs < MaxSignals
  /\ sigs' = sigs + 1
  /\ proc' = IF registered THEN proc ELSE "killed"
  /\ hpc' = IF registered /\ Receiving(hpc) THEN "woken" ELSE hpc
  /\ UNCHANGED << iscVars, ciVars, cmd, world, idx, invoked, checkErr, calls, cpc,
                  registered >>

\* Variant: serDone is not called.
SerDoneCalls_none(v) == << >>

\* Lines 84-86: serDone is called when it is not nil.
SerDoneCalls(v) == IF v.serDone THEN << "serDone" >> ELSE << >>

HandlerSerDone ==
  /\ Alive /\ hpc = "woken"
  /\ calls' = calls \o SerDoneCalls(world)
  /\ hpc' = "done"
  /\ UNCHANGED << iscVars, ciVars, cmd, world, idx, invoked, checkErr, cpc, registered,
                  sigs, proc >>

\* Line 87: mru.Done().
HandlerDone ==
  /\ Alive /\ hpc = "done"
  /\ calls' = Append(calls, "mru.Done")
  /\ hpc' = "exit"
  /\ UNCHANGED << iscVars, ciVars, cmd, world, idx, invoked, checkErr, cpc, registered,
                  sigs, proc >>

\* Lines 88-89: os.Exit(1) ends the process.
HandlerExit ==
  /\ Alive /\ hpc = "exit"
  /\ calls' = Append(calls, "os.Exit")
  /\ hpc' = "exited"
  /\ proc' = "exited"
  /\ UNCHANGED << iscVars, ciVars, cmd, world, idx, invoked, checkErr, cpc, registered,
                  sigs >>

ImportMeta ==
  \/ CheckCall
  \/ SearchProject
  \/ SuggestBucket
  \/ Notify
  \/ GoHandler
  \/ RunCall
  \/ RunReturn

Handler ==
  \/ HandlerWait
  \/ HandlerSerDone
  \/ HandlerDone
  \/ HandlerExit


\* =================================================== the check image command
\* checkImageCmd.Run, with the walker (file.WalkFiles) and the digest pool
\* (file.ImageDigester) it starts.
MaxPaths == 3

ErrFileNotImage == "file: not image"
ErrWalk == "walk: permission denied"

\* The values of the flag --thread: -1 stands for every n <= 0.
Threads == {-1} \cup Workers

FileLists == UNION { [1..n -> BOOLEAN] : n \in 0..MaxPaths }

CheckImageInit ==
  /\ rev = 3
  /\ IscInit
  /\ cmd = "check-image"
  /\ world = NoWorld
  /\ idx = 0
  /\ invoked = << >>
  /\ checkErr = ""
  /\ calls = << >>
  /\ cpc = "start"
  /\ hpc = "none"
  /\ registered = FALSE
  /\ sigs = 0
  /\ proc = "running"
  /\ files \in FileLists
  /\ walkErr \in {"", ErrWalk}
  /\ thread \in Threads
  /\ CiIdle

impVars == << world, idx, invoked, checkErr, calls, hpc, registered, sigs >>

CiAlive == cmd = "check-image" /\ proc = "running"

\* ------------------------------------------------------------------ walker
\* file.WalkFiles has started its goroutine (the command is past line 47).
Walking == cpc # "start"

\* The walker sends the next path it finds.
WalkSend ==
  /\ CiAlive /\ Walking /\ ~pathsClosed
  /\ walked < Len(files)
  /\ Len(paths) < ImagesCap
  /\ walked' = walked + 1
  /\ paths' = Append(paths, walked + 1)
  /\ UNCHANGED << iscVars, cmdVars, files, walkErr, thread, pathsClosed, errc,
                  threads, dwg, dpc, dcur, resultCloses, doneCloses, received,
                  totalImg >>

\* The traversal is over: the walker closes paths and sends the traversal's
\* error, nil included, on errc, once.
WalkEnd ==
  /\ CiAlive /\ Walking /\ ~pathsClosed
  /\ walked = Len(files)
  /\ pathsClosed' = TRUE
  /\ errc' = Append(errc, walkErr)
  /\ UNCHANGED << iscVars, cmdVars, files, walkErr, thread, walked, paths,
                  threads, dwg, dpc, dcur, resultCloses, doneCloses, received,
                  totalImg >>

\* -------------------------------------------------------------- digest pool
\* The number of workers digester.Run starts for the argument n.
DigesterN(n) == IF n <= 0 THEN NumCPU ELSE n

\* What a worker computes for the k-th file.
DigestOf(k) == ImageDigest(k, IF files[k] THEN "" ELSE ErrFileNotImage)

\* A worker pulls the next path and digests the file.
DigestTake(w) ==
  /\ CiAlive /\ dpc[w] = "range"
  /\ paths # << >>
  /\ paths' = Tail(paths)
  /\ dcur' = [dcur EXCEPT ![w] = DigestOf(Head(paths))]
  /\ dpc' = [dpc EXCEPT ![w] = "send"]
  /\ UNCHANGED << iscVars, cmdVars, files, walkErr, thread, walked, pathsClosed,
                  errc, threads, dwg, resultCloses, doneCloses, received,
                  totalImg >>

\* A worker finds paths closed and empty and returns.
DigestReturn(w) ==
  /\ CiAlive /\ dpc[w] = "range"
  /\ paths = << >> /\ pathsClosed
  /\ dpc' = [dpc EXCEPT ![w] = "returned"]
  /\ dwg' = dwg - 1
  /\ UNCHANGED << iscVars, cmdVars, files, walkErr, thread, walked, paths,
                  pathsClosed, errc, threads, dcur, resultCloses, doneCloses,
                  received, totalImg >>

\* The pool closes the result stream once all its workers have returned.
DigestClose ==
  /\ CiAlive /\ threads > 0 /\ dwg = 0
  /\ resultCloses = 0
  /\ resultCloses' = resultCloses + 1
  /\ UNCHANGED << iscVars, cmdVars, files, walkErr, thread, walked, paths,
                  pathsClosed, errc, threads, dwg, dpc, dcur, doneCloses,
                  received, totalImg >>

\* ------------------------------------------------------------ checkImageCmd
\* Lines 44-48: done is made, its close deferred, the walk started, result
\* made.
CiStart ==
  /\ CiAlive /\ cpc = "start"
  /\ cpc' = "run"
  /\ UNCHANGED << iscVars, impVars, cmd, proc, ciVars >>

\* Lines 50-59: digester.Run(thread) starts the workers and returns their
\* number.
CiRun ==
  /\ CiAlive /\ cpc = "run"
  /\ threads' = DigesterN(thread)
  /\ dwg' = DigesterN(thread)
  /\ dpc' = [w \in Workers |-> IF w <= DigesterN(thread) THEN "range" ELSE "none"]
  /\ cpc' = "range"
  /\ UNCHANGED << iscVars, impVars, cmd, proc, files, walkErr, thread, walked,
                  paths, pathsClosed, errc, dcur, resultCloses, doneCloses,
                  received, totalImg >>

\* Variant: the loop is left at the first digest with an error.
AfterErrorDigest_break == "errc"

\* Line 67: continue, the loop goes on after a digest with an error.
AfterErrorDigest == "range"

\* Lines 64-90, one iteration of `for r := range result`: the command
\* receives the digest worker w sends; one with an error is logged and
\* skipped, another is counted.
CiReceive(w) ==
  /\ CiAlive /\ cpc = "range"
  /\ dpc[w] = "send" /\ resultCloses = 0
  /\ received' = Append(received, dcur[w])
  /\ dpc' = [dpc EXCEPT ![w] = "range"]
  /\ dcur' = [dcur EXCEPT ![w] = NoDigest]
  /\ IF dcur[w].Error # ""
       THEN /\ cpc' = AfterErrorDigest
            /\ UNCHANGED totalImg
       ELSE /\ cpc' = "range"
            /\ totalImg' = totalImg + 1
  /\ UNCHANGED << iscVars, impVars, cmd, proc, files, walkErr, thread, walked,
                  paths, pathsClosed, errc, threads, dwg, resultCloses,
                  doneCloses >>

\* Variant: the command does not wait for the end of result.
RangeOver_early == TRUE

\* `for r := range result` is over when result is closed.
RangeOver == resultCloses > 0

\* The range loop ends when result is closed.
CiRangeEnd ==
  /\ CiAlive /\ cpc = "range"
  /\ RangeOver
  /\ cpc' = "errc"
  /\ UNCHANGED << iscVars, impVars, cmd, proc, ciVars >>

\* Lines 93-95: the command receives from errc; an error makes it panic, and
\* the deferred close(done) runs.
CiErrc ==
  /\ CiAlive /\ cpc = "errc"
  /\ errc # << >>
  /\ errc' = Tail(errc)
  /\ IF Head(errc) # ""
       THEN /\ proc' = "panicked"
            /\ doneCloses' = doneCloses + 1
            /\ cpc' = "returned"
       ELSE /\ cpc' = "money"
            /\ UNCHANGED << proc, doneCloses >>
  /\ UNCHANGED << iscVars, impVars, cmd, files, walkErr, thread, walked, paths,
                  pathsClosed, threads, dwg, dpc, dcur, resultCloses, received,
                  totalImg >>

\* Lines 97-112: gql.CoinsToMoney answers or fails; the command prints the
\* totals and returns, or panics; either way the deferred close(done) runs.
CiMoney(ok) ==
  /\ CiAlive /\ cpc = "money"
  /\ proc' = IF ok THEN "returned" ELSE "panicked"
  /\ doneCloses' = doneCloses + 1
  /\ cpc' = "returned"
  /\ UNCHANGED << iscVars, impVars, cmd, files, walkErr, thread, walked, paths,
                  pathsClosed, errc, threads, dwg, dpc, dcur, resultCloses,
                  received, totalImg >>

Walker ==
  \/ WalkSend
  \/ WalkEnd

Digester ==
  \/ \E w \in Workers : DigestTake(w)
  \/ \E w \in Workers : DigestReturn(w)
  \/ DigestClose

CheckImage ==
  \/ CiStart
  \/ CiRun
  \/ \E w \in Workers : CiReceive(w)
  \/ CiRangeEnd
  \/ CiErrc
  \/ \E ok \in BOOLEAN : CiMoney(ok)

\* ------------------------------------------------------- a call of CheckPID
\* The kinds CheckPID is documented for: "image", "model", "meta", and the
\* empty string for a project of any kind.
Kinds == {"image", "model", "meta", ""}

PidWorlds == [mode : {NormalMode}, project : Projects, fileExists : {FALSE},
              meta : {""}, bucketOk : {FALSE}, serDone : {FALSE}, kind : Kinds]

\* service.CheckPID(kind, pid) is about to be called on its own.
CheckPIDInit ==
  /\ rev = 3
  /\ IscInit
  /\ NoCheckImage
  /\ cmd = "CheckPID"
  /\ world \in PidWorlds
  /\ idx = 0
  /\ invoked = << >>
  /\ checkErr = ""
  /\ calls = << >>
  /\ cpc = "call"
  /\ hpc = "none"
  /\ registered = FALSE
  /\ sigs = 0
  /\ proc = "running"

\* The check function CheckPID(kind, pid) returns is called: it looks the
\* project up and returns its error or nil.
CheckPIDCall ==
  /\ cmd = "CheckPID" /\ cpc = "call"
  /\ invoked' = Append(invoked, "CheckPID")
  /\ calls' = calls \o CheckCalls("CheckPID")
  /\ checkErr' = CheckPID(world.kind, world)
  /\ cpc' = "returned"
  /\ proc' = "returned"
  /\ UNCHANGED << iscVars, ciVars, cmd, world, idx, hpc, registered, sigs >>

\* ----------------------------------------------- the commands and the call
CmdInit ==
  \/ ImportMetaInit
  \/ CheckImageInit
  \/ CheckPIDInit

CmdNext ==
  \/ ImportMeta
  \/ Handler
  \/ Interrupt
  \/ CheckImage
  \/ Walker
  \/ Digester
  \/ CheckPIDCall

CmdSpec == CmdInit /\ [][CmdNext]_vars

\* The goroutines of check image are scheduled, and gql.CoinsToMoney answers.
CmdFairness ==
  /\ WF_vars(Walker)
  /\ \A w \in Workers : WF_vars(DigestTake(w)) /\ WF_vars(DigestReturn(w))
  /\ WF_vars(DigestClose)
  /\ WF_vars(CheckImage)

CmdFairSpec == CmdInit /\ [][CmdNext]_vars /\ CmdFairness

\* ------------------------------------------------------------------- C15
IsPrefix(a, b) == Len(a) <= Len(b) /\ a = SubSeq(b, 1, Len(a))
Count(q, c) == Cardinality({ j \in 1..Len(q) : q[j] = c })
Failing == { j \in 1..Len(MetaChecks) : CheckFn(MetaChecks[j], world) # "" }
FirstFailing == CHOOSE j \in Failing : \A m \in Failing : j <= m

\* C15: service.Check calls the checks in argument order and calls none
\* after the first one that fails; once it has returned, its result is the
\* error of that first failing check, and nil exactly when no check fails
\* (then every check was called).
C15_CheckFirstError ==
  cmd = "import-meta" =>
    /\ IsPrefix(invoked, MetaChecks)
    /\ Failing # {} => Len(invoked) <= FirstFailing
    /\ cpc # "check" =>
         IF Failing = {}
           THEN checkErr = "" /\ invoked = MetaChecks
           ELSE /\ checkErr = CheckFn(MetaChecks[FirstFailing], world)
                /\ checkErr # ""
                /\ Len(invoked) = FirstFailing

C15_Witness ==
  /\ cpc = "returned"
  /\ checkErr = ErrNotExist
  /\ invoked = << "CheckAPIServer", "CheckPID", "CheckFile" >>
  /\ world.meta \notin validNames

\* ------------------------------------------------------------------- C16
StageOrder == << "service.SuggestBucket", "mru.Run" >>
IsStage(c) == c \in { StageOrder[j] : j \in 1..Len(StageOrder) }

\* C16: the command runs its stages in the order checks, bucket selection,
\* Run, each at most once: the bucket is asked for only after Check returned
\* nil, Run is called only after the bucket was chosen; a failure of the
\* checks or of the bucket selection makes the command return at that step,
\* and a command that has ended makes no further call.
C16_StagesInOrder ==
  [][ /\ IsPrefix(SelectSeq(calls', IsStage), StageOrder)
      /\ Count(calls', "service.SuggestBucket") = 1 =>
            /\ invoked' = MetaChecks /\ checkErr' = "" /\ Failing = {}
      /\ (cpc = "check" /\ checkErr' # "") => proc' = "returned"
      /\ Count(calls', "mru.Run") = 1 => world.bucketOk
      /\ (Count(calls', "service.SuggestBucket") > Count(calls, "service.SuggestBucket")
            /\ ~world.bucketOk) => proc' = "returned"
      /\ proc # "running" => calls' = calls
    ]_vars

C16_Witness ==
  /\ proc = "returned"
  /\ SelectSeq(calls, IsStage) = StageOrder

\* ------------------------------------------------------------------- C17
IsCleanup(c) == c \in {"serDone", "mru.Done", "os.Exit"}
Cleanup == SelectSeq(calls, IsCleanup)

C19_NoCallBeforeNameCheck ==
  (cmd = "import-meta" /\ world.meta \notin validNames) => calls = << >>

\* C19, amended: a command given a meta file name outside the allow-list
\* runs no stage after the checks (no second project lookup, no bucket
\* selection, no Run, no interrupt goroutine).  The file name is the last of
\* the four checks: what was called before are the server-mode query, the
\* project lookup and the stat of the file, and when the name check is the
\* one that fails all three were called.
C19_NameCheckIsLast ==
  (cmd = "import-meta" /\ world.meta \notin validNames) =>
    /\ IsPrefix(calls, << "gql.ActiveSystemMode", "gql.SearchProjectID", "os.Stat" >>)
    /\ ~registered /\ hpc = "none"
    /\ cpc \in {"check", "returned"}
    /\ checkErr = ErrMetaFilenameInvalid =>
         /\ calls = << "gql.ActiveSystemMode", "gql.SearchProjectID", "os.Stat" >>
         /\ proc = "returned"

C19_Witness ==
  /\ world.meta \notin validNames
  /\ checkErr = ErrMetaFilenameInvalid
  /\ proc = "returned"

\* ------------------------------------------------------------------- C18
\* C18: the cancellation signal is closed at most once.  In check image
\* close(done) runs exactly when the command returns or panics, once, and
\* not before.  In import meta the interrupt goroutine calls mru.Done at most
\* once, however many interrupts are delivered.
C18_ClosedAtMostOnce ==
  /\ doneCloses <= 1
  /\ cmd = "check-image" =>
       (doneCloses = 1 <=> proc \in {"returned", "panicked"})
  /\ Count(calls, "mru.Done") <= 1
  /\ Count(calls, "mru.Done") = 1 => sigs >= 1

C18_Witness ==
  /\ sigs = MaxSignals
  /\ Count(calls, "mru.Done") = 1
  /\ proc = "exited"

\* ------------------------------------------------------------------- C20
PathsReceived(k) == { j \in 1..Len(received) : received[j].Path = k }

\* C20: the command leaves its loop over result only when result is closed,
\* and by then it has received exactly one digest for each path the pool was
\* given, digests with an error included, and no other; this for every
\* number of workers.
C20_OneDigestPerPath ==
  cmd = "check-image" =>
    /\ cpc \in {"errc", "money", "returned"} => resultCloses > 0
    /\ resultCloses > 0 =>
         /\ Len(received) = Len(files)
         /\ \A k \in 1..Len(files) : Cardinality(PathsReceived(k)) = 1
         /\ \A j \in 1..Len(received) :
              /\ received[j].Path \in 1..Len(files)
              /\ received[j] = DigestOf(received[j].Path)
    /\ totalImg = Cardinality({ j \in 1..Len(received) : received[j].Error = "" })

C20_Witness ==
  /\ cmd = "check-image"
  /\ cpc = "returned"
  /\ threads = MaxWorkers
  /\ Len(received) = MaxPaths
  /\ \E j \in 1..Len(received) : received[j].Error # ""
  /\ \E j \in 1..Len(received) : received[j].Error = ""

\* ------------------------------------------------------------------- C21
\* C21: the walker sends on errc once per walk: errc never holds more than
\* one value, and when the command, having drained result, comes to its
\* receive from errc, the value is there.  So the command does not block on
\* that receive: a check image command always ends, by return or by panic.
C21_ErrcOnceAndTermination ==
  /\ [](cmd = "check-image" =>
          /\ Len(errc) <= 1
          /\ pathsClosed <=> (Len(errc) = 1 \/ cpc \in {"money", "returned"})
          /\ cpc = "errc" => Len(errc) = 1)
  /\ (cmd = "check-image") ~> (proc \in {"returned", "panicked"})

C21_Witness ==
  /\ cmd = "check-image"
  /\ cpc = "money"
  /\ errc = << >>
  /\ pathsClosed
  /\ Len(received) = MaxPaths

\* ------------------------------------------------------------------- C22
\* The workers inside checkState for image k, at its select.
Receivers(k) == { w \in Workers : pc[w] = "wait" /\ cur[w] = k }

\* C22: a poll goroutine that has a result to hand over on imgCh has a
\* checkState waiting to receive it; one whose checkState has returned by
\* timeout is not left at its send.
C22_AbandonedLoopEnds ==
  \A k \in Items : gpc[k] = "send" => Receivers(k) # {}

\* ------------------------------------------------------------------- C23
\* C23: in a run where Done is never closed and the consumer keeps receiving
\* from Result, once Run was called and Images is closed every worker
\* returns and Result is closed, whatever the remote answers, Pending forever
\* included.
C23_PoolTerminates ==
  ([]~doneClosed /\ []consuming) =>
     ((nWorkers > 0 /\ imagesClosed) ~> (AllReturned /\ closes = 1))

C23_Witness ==
  /\ ~doneClosed /\ consuming
  /\ AllReturned /\ closes = 1
  /\ fed = MaxItems
  /\ \E j \in 1..Len(emitted) :
       /\ emitted[j].Error = ErrClientTimeout
       /\ ~termSeen[emitted[j].IID]

\* ------------------------------------------------------------------- C24
\* C24: Run is called only after signal.Notify and the go statement of the
\* interrupt goroutine; and an interrupt delivered while Run is in progress,
\* when the goroutine has not yet begun its cleanup, makes it begin: the
\* goroutine gets the signal whatever Run is doing.
C24_InterruptDuringRunCleansUp ==
  [][ /\ Count(calls', "mru.Run") > Count(calls, "mru.Run") =>
           registered /\ hpc # "none"
      /\ (cpc = "running" /\ sigs' = sigs + 1 /\ hpc \in {"start", "recv"}) =>
           hpc' = "woken"
    ]_vars

\* ------------------------------------------------------------------- C25
\* The image as it came in, with the client timeout error.
InputTimedOut(k) == [input[k] EXCEPT !.Error = ErrClientTimeout]

\* C25: when checkState returns by its timeout case, what it returns is the
\* image it was given with only the error replaced by the client timeout
\* error, whatever the poll loop has seen; and every image emitted with that
\* error is its input image with only the error replaced.
C25_TimeoutKeepsInput ==
  [][ /\ \A w \in Workers :
           (pc[w] = "wait" /\ pc'[w] = "select" /\ gpc'[cur[w]] # "closed") =>
              ret'[w] = InputTimedOut(cur[w])
      /\ \A j \in 1..Len(emitted') :
           emitted'[j].Error = ErrClientTimeout =>
              emitted'[j] = [input'[emitted'[j].IID] EXCEPT !.Error = ErrClientTimeout] ]_vars

C25_Witness ==
  \E j \in 1..Len(emitted) :
    /\ emitted[j].Error = ErrClientTimeout
    /\ emitted[j].State = "Pending"
    /\ gi[emitted[j].IID].State = "Ready"

\* ------------------------------------------------------------------- C26
\* C26 (part_003): an image that checkState returns or that is emitted with
\* an empty error has state Ready; so one returned after Invalid, after the
\* timeout or after a failed query has an error.
C26_NoErrorMeansReady ==
  rev = 3 =>
    /\ \A j \in 1..Len(emitted) :
         emitted[j].Error = "" => emitted[j].State = "Ready"
    /\ \A w \in Workers :
         (pc[w] = "select" /\ ret[w].Error = "") => ret[w].State = "Ready"

C26_Witness ==
  /\ rev = 3
  /\ \E j \in 1..Len(emitted) : emitted[j].Error = "" /\ emitted[j].State = "Ready"
  /\ \E j \in 1..Len(emitted) : emitted[j].Error = ErrImgInvalid /\ emitted[j].State = "Invalid"

\* ------------------------------------------------------------------- C27
\* C27: CheckPID(kind, pid) returns the lookup error when the project is not
\* found.  For a project that is found, kind "meta" returns the
\* project-not-found error exactly when the project is imported, kind
\* "model" exactly when it is not imported, and kind "image" and the empty
\* kind return nil; no other error is returned.
C27_CheckPIDByKind ==
  (cmd = "CheckPID" /\ cpc = "returned") =>
    IF world.project = "missing"
      THEN checkErr = ErrProjLookup
      ELSE /\ checkErr \in {"", ErrProjNotFound}
           /\ world.kind = "meta" =>
                (checkErr = ErrProjNotFound <=> world.project = "imported")
           /\ world.kind = "model" =>
                (checkErr = ErrProjNotFound <=> world.project = "plain")
           /\ world.kind \in {"image", ""} => checkErr = ""

C27_Witness ==
  /\ cmd = "CheckPID" /\ cpc = "returned"
  /\ world.kind = "model"
  /\ world.project = "plain"
  /\ checkErr = ErrProjNotFound

====
